---- MODULE Spec2Model ----
(***************************************************************************)
(* Model of nvidia-fan-controller (src/main.go): the -speeds flag parser,  *)
(* the curve compiler, the control loop goroutine and the lifecycle of     *)
(* main() (NVML init, deferred restoration, signal wait, cancel, join).    *)
(*                                                                         *)
(* Modelling conventions                                                   *)
(*  - A -speeds string is a sequence of tokens: Comma, Colon, Num(v) (a    *)
(*    maximal run of characters that is the decimal literal of v) and Junk *)
(*    (a maximal run of characters that is not a decimal literal).         *)
(*  - Every NVML call is one atomic step that returns (succeeds or fails). *)
(*  - SIGTERM/SIGINT are modelled from signal.Notify on: before that the   *)
(*    Go runtime's default disposition ends the process outside main().    *)
(*  - float32 arithmetic is IEEE-754 single precision, round to nearest    *)
(*    even, one rounding per operation; uint8(x) of an integer is x % 256. *)
(***************************************************************************)
EXTENDS Integers, Sequences, FiniteSets, TLC

\* ---------------------------------------------------------------- constants

MIN_TEMP == 0
MAX_TEMP == 150
MAX_FAN_SPEED_PERCENT == 100

\* capacity of the cancel channel: make(chan bool, 1); make(chan bool) would
\* have none
CancelCapUnbuffered == Len(<<>>)
CancelCap == 1

\* capacity of the gracefulStop channel: make(chan os.Signal, 1)
SignalCap == 1

\* bitSize argument of strconv.ParseInt(s, 10, 8)
ParseBitSize == 8

\* ------------------------------------------------------------------- bounds

\* the device has between 0 and MaxFans fans
MaxFans == 2
\* the count of sensor reads after the cancel signal saturates here
MaxReadsAfterCancel == 2
\* the curves given to the compiler have between 1 and MaxBreakpoints
\* breakpoints
MaxBreakpoints == 2

\* ------------------------------------------------------------ integer types

Pow2(n) == 2 ^ n

\* uint8(x) for an integer x (two's complement truncation)
Uint8(x) == x % 256

\* ------------------------------------------------------------------ parsing

Comma == <<",", 0>>
Colon == <<":", 0>>
Junk == <<"x", 0>>
Num(v) == <<"n", v>>

\* strings.Split(s, sep) for a one-character separator: the pieces between
\* the separators, empty pieces included; n separators give n+1 pieces
SepPositions(s, sep) == {i \in 1..Len(s) : s[i] = sep}

\* the k-th smallest element of the set of positions P
NthPosition(P, k) == CHOOSE p \in P : Cardinality({q \in P : q <= p}) = k

Split(s, sep) ==
  LET P == SepPositions(s, sep)
      n == Cardinality(P)
      first(k) == IF k = 1 THEN 1 ELSE NthPosition(P, k - 1) + 1
      last(k) == IF k = n + 1 THEN Len(s) ELSE NthPosition(P, k) - 1
  IN  [k \in 1..(n + 1) |-> SubSeq(s, first(k), last(k))]

\* strconv.ParseInt(field, 10, bitSize): ok iff the field is one decimal
\* literal whose value fits a signed integer of bitSize bits
ParseIntOk(field, bitSize) ==
  /\ Len(field) = 1
  /\ field[1][1] = "n"
  /\ field[1][2] >= -Pow2(bitSize - 1)
  /\ field[1][2] <= Pow2(bitSize - 1) - 1

ParseIntVal(field) == field[1][2]

\* whether the pair at index i of the split string passes lines 177-188
PairOk(speedPointArr) ==
  /\ Len(speedPointArr) = 2
  /\ ParseIntOk(speedPointArr[1], ParseBitSize)
  /\ ParseIntOk(speedPointArr[2], ParseBitSize)

\* the parser that would read each pair as speed:temperature
parseSpeedConfigFlagSwapped(fanSpeedStrConfig) ==
  LET speedPoints == Split(fanSpeedStrConfig, Comma)
      arr(i) == Split(speedPoints[i], Colon)
  IN  IF \A i \in 1..Len(speedPoints) : PairOk(arr(i))
        THEN [ok |-> TRUE,
              cfg |-> [i \in 1..Len(speedPoints) |->
                         <<Uint8(ParseIntVal(arr(i)[2])),
                           Uint8(ParseIntVal(arr(i)[1]))>>]]
        ELSE [ok |-> FALSE, cfg |-> <<>>]

\* parseSpeedConfigFlag: [ok |-> FALSE] on the first bad pair, otherwise the
\* list of [2]uint8 {uint8(temperature), uint8(speed)}
parseSpeedConfigFlag(fanSpeedStrConfig) ==
  LET speedPoints == Split(fanSpeedStrConfig, Comma)
      arr(i) == Split(speedPoints[i], Colon)
  IN  IF \A i \in 1..Len(speedPoints) : PairOk(arr(i))
        THEN [ok |-> TRUE,
              cfg |-> [i \in 1..Len(speedPoints) |->
                         <<Uint8(ParseIntVal(arr(i)[1])),
                           Uint8(ParseIntVal(arr(i)[2]))>>]]
        ELSE [ok |-> FALSE, cfg |-> <<>>]

\* ------------------------------------------------------------------ float32
\* A positive float32 is [m, n]: the value m / 2^n with 2^23 <= m < 2^24.
\* Zero is [m |-> 0, n |-> 0].

F32Zero == [m |-> 0, n |-> 0]

\* the number of binary places n for which floor(a * 2^n / b) has exactly 24
\* significant bits, for 1 <= a <= 255 and 1 <= b <= 255 (so 16 <= n <= 31;
\* the comparison is scaled down by 2^16 to stay in 32 bits)
DivShift(a, b) ==
  CHOOSE n \in 16..31 :
    /\ a * Pow2(n - 16) >= 128 * b
    /\ (n = 16 \/ a * Pow2(n - 17) < 128 * b)

\* long division of a * 2^n by b in two stages of at most 12 and 19 places
DivBits(a, b) ==
  LET n == DivShift(a, b)
      q1 == (a * Pow2(12)) \div b
      r1 == (a * Pow2(12)) % b
  IN  [q |-> q1 * Pow2(n - 12) + ((r1 * Pow2(n - 12)) \div b),
       r |-> (r1 * Pow2(n - 12)) % b,
       n |-> n]

\* a mantissa that rounding carried to 2^24 is renormalised
F32Norm(m, n) == IF m = Pow2(24) THEN [m |-> Pow2(23), n |-> n - 1]
                                 ELSE [m |-> m, n |-> n]

\* float32(a / b), the integer quotient converted afterwards, is what the
\* division would give if it were made before the conversions
F32DivOfQuotient(a, b) ==
  IF a \div b = 0 THEN F32Zero
  ELSE LET d == DivBits(a \div b, 1)
       IN  F32Norm(d.q, d.n)

\* float32(a) / float32(b) for integers 0 <= a <= 255, 1 <= b <= 255
F32Div(a, b) ==
  IF a = 0 THEN F32Zero
  ELSE LET d == DivBits(a, b)
           up == (2 * d.r > b) \/ (2 * d.r = b /\ d.q % 2 = 1)
       IN  F32Norm(d.q + (IF up THEN 1 ELSE 0), d.n)

\* smallest d with h < 2^(12 + d)
RECURSIVE DropBits(_, _)
DropBits(h, d) == IF h < Pow2(12 + d) THEN d ELSE DropBits(h, d + 1)

\* f * float32(k) for an integer 0 <= k <= 255: the exact product, rounded
\* to 24 bits (the product is kept as hi * 2^12 + lo to stay in 32 bits)
F32MulInt(f, k) ==
  IF f.m = 0 \/ k = 0 THEN F32Zero
  ELSE LET mh == f.m \div Pow2(12)
           ml == f.m % Pow2(12)
           hi == mh * k + ((ml * k) \div Pow2(12))
           lo == (ml * k) % Pow2(12)
           d == DropBits(hi, 0)
           q == hi * Pow2(12 - d) + (lo \div Pow2(d))
           r == lo % Pow2(d)
           up == d > 0 /\ (r > Pow2(d - 1) \/ (r = Pow2(d - 1) /\ q % 2 = 1))
       IN  F32Norm(q + (IF up THEN 1 ELSE 0), f.n - d)

\* floor(log2(w)) for w >= 1
RECURSIVE Log2(_)
Log2(w) == IF w < 2 THEN 0 ELSE 1 + Log2(w \div 2)

\* the integer part of f + float32(s) for an integer 0 <= s <= 255, the sum
\* rounded to 24 bits: what the conversion of the sum to an integer keeps
F32AddIntTrunc(f, s) ==
  IF f.m = 0 THEN s
  ELSE LET big == f.n > 30
           ip == IF big THEN 0 ELSE f.m \div Pow2(f.n)
           fr == IF big THEN f.m ELSE f.m % Pow2(f.n)
           w == ip + s
       IN  IF s = 0 \/ w = 0 THEN w
           ELSE LET keep == 23 - Log2(w)
                    e == f.n - keep
                IN  IF e <= 0 THEN w
                    ELSE LET fq == fr \div Pow2(e)
                             rr == fr % Pow2(e)
                             up == rr > Pow2(e - 1)
                                   \/ (rr = Pow2(e - 1) /\ fq % 2 = 1)
                         IN  IF up /\ fq + 1 = Pow2(keep) THEN w + 1 ELSE w

\* ------------------------------------------------------------ curve compiler

\* the end point of segment i (lines 42-48): the next breakpoint, or the
\* synthetic (MAX_TEMP + 1, MAX_FAN_SPEED_PERCENT) after the last one; an end
\* point that kept the last breakpoint's speed would make the last segment
\* flat
EndRangeFlat(ranges, i) ==
  IF i < Len(ranges) THEN ranges[i + 1]
                     ELSE <<MAX_TEMP + 1, ranges[i][2]>>

EndRange(ranges, i) ==
  IF i < Len(ranges) THEN ranges[i + 1]
                     ELSE <<MAX_TEMP + 1, MAX_FAN_SPEED_PERCENT>>

\* linearSlope of segment i (lines 52-55), differences taken in uint8
LinearSlope(ranges, i) ==
  LET dt == Uint8(EndRange(ranges, i)[1] - ranges[i][1])
      ds == Uint8(EndRange(ranges, i)[2] - ranges[i][2])
  IN  IF dt # 0 THEN F32Div(ds, dt) ELSE F32Zero

\* bucket[temp] as segment i writes it (line 58); with x - x_0 taken one step
\* further the segment would start one slope above its breakpoint
SegmentSpeedNextStep(ranges, i, temp) ==
  Uint8(F32AddIntTrunc(F32MulInt(LinearSlope(ranges, i),
                                 Uint8(temp + 1 - ranges[i][1])),
                       ranges[i][2]))

SegmentSpeed(ranges, i, temp) ==
  Uint8(F32AddIntTrunc(F32MulInt(LinearSlope(ranges, i),
                                 Uint8(temp - ranges[i][1])),
                       ranges[i][2]))

\* the segments whose loop (line 56) writes bucket[temp]: it starts at the
\* segment's own breakpoint; a loop started at MIN_TEMP would also write
\* the temperatures below it
WritersFromMinTemp(ranges, temp) ==
  {i \in 1..Len(ranges) :
     MIN_TEMP <= temp /\ temp < EndRange(ranges, i)[1]}

Writers(ranges, temp) ==
  {i \in 1..Len(ranges) :
     ranges[i][1] <= temp /\ temp < EndRange(ranges, i)[1]}

SetMax(S) == CHOOSE x \in S : \A y \in S : y <= x

\* line 26: make(map[uint8]uint8) has no key; a table pre-filled with speed 0
\* over the domain would have one for every temperature
ZeroedBucket == [t \in MIN_TEMP..MAX_TEMP |-> 0]
NewBucket == [t \in {} |-> 0]

\* generateTempNFanSpeedMap: the map as a function on its set of keys; a key
\* written more than once keeps the value written last
generateTempNFanSpeedMap(ranges) ==
  IF Len(ranges) = 0 THEN NewBucket
  ELSE LET keys == {t \in 0..255 :
                      t < ranges[1][1] \/ Writers(ranges, t) # {}}
       IN  [t \in keys |->
              IF Writers(ranges, t) = {} THEN 0
              ELSE SegmentSpeed(ranges, SetMax(Writers(ranges, t)), t)]

\* ------------------------------------------------------------------- inputs

\* "35:40,40:50,50:60,60:90,80:100", the default of -speeds (line 204)
DefaultSpeeds ==
  <<Num(35), Colon, Num(40), Comma, Num(40), Colon, Num(50), Comma,
    Num(50), Colon, Num(60), Comma, Num(60), Colon, Num(90), Comma,
    Num(80), Colon, Num(100)>>

\* the -speeds strings of the model
SpeedsFlags ==
  { DefaultSpeeds,
    <<>>,                                               \* ""
    <<Num(35), Colon, Num(40), Comma, Num(40)>>,        \* "35:40,40"
    <<Num(35), Colon, Num(40), Comma>>,                 \* "35:40,"
    <<Num(40), Colon, Num(50), Colon, Num(60)>>,        \* "40:50:60"
    <<Num(35), Colon, Junk>>,                           \* "35:4o"
    <<Num(-1), Colon, Num(50)>>,                        \* "-1:50"
    <<Num(40), Colon, Num(120)>>,                       \* "40:120"
    <<Num(128), Colon, Num(50)>>,                       \* "128:50"
    <<Num(40), Colon, Num(200)>> }                      \* "40:200"

\* the decimal literal that strconv.ParseInt(s, 10, 8) accepts and uint8()
\* converts to v: v itself up to 127, v - 256 above
Int8Literal(v) == IF v > 127 THEN v - 256 ELSE v

\* the -speeds string "t1:s1,t2:s2,..." that parseSpeedConfigFlag turns into
\* the list of breakpoints curve
Encode(curve) ==
  [k \in 1..(4 * Len(curve) - 1) |->
     LET p == curve[(k + 3) \div 4]
     IN  CASE k % 4 = 1 -> Num(Int8Literal(p[1]))
           [] k % 4 = 2 -> Colon
           [] k % 4 = 3 -> Num(Int8Literal(p[2]))
           [] OTHER -> Comma]

\* the breakpoints of the curves given to the compiler: temperatures at both
\* ends of [MIN_TEMP, MAX_TEMP] and inside, speeds at both ends of
\* [0, MAX_FAN_SPEED_PERCENT] and inside
CurveTemps == {MIN_TEMP, 40, 50, MAX_TEMP}
CurveSpeeds == {0, 40, 50, MAX_FAN_SPEED_PERCENT}
CurvePoints == CurveTemps \X CurveSpeeds

\* the curves of 1..MaxBreakpoints breakpoints, in any order of temperature
\* and of speed
Curves == UNION {[1..n -> CurvePoints] : n \in 1..MaxBreakpoints}

\* their -speeds strings, and the default one
CurveFlags == {Encode(c) : c \in Curves} \cup {DefaultSpeeds}

\* the values nvml.DeviceGetTemperature returns in the model (uint32)
Readings == {37, 151, 256, 406}

\* -------------------------------------------------------------------- state

VARIABLES
  speeds,          \* the -speeds flag (fanSpeedEncoded)
  dryrun,          \* the -dry-run flag
  deviceFans,      \* the number of fans of the device
  mainPc,          \* where main() is
  fanSpeedConfig,  \* the parsed breakpoints (main's fanSpeedConfig)
  speedMap,        \* the compiled table (main's speedMap)
  handle,          \* main holds the device handle, restoration is deferred
  loopPc,          \* where the goroutine running runCustomGPUFanCurve is
  loopOutcome,     \* "none", "error" (returned an error), "cancelled" (nil)
  numFans,         \* runCustomGPUFanCurve's numFans
  fanIdx,          \* runCustomGPUFanCurve's i in the loop of line 95
  temperature,     \* the last temperature read
  tickC,           \* ticks buffered in ticker.C (capacity 1)
  cancelCh,        \* values buffered in cancel
  cancelClosed,    \* close(cancel) was executed
  gracefulStop,    \* signals buffered in gracefulStop
  notified,        \* signal.Notify was executed
  wg,              \* the WaitGroup counter
  restoreFans,     \* numFans of the deferred restoration function
  restoreIdx,      \* i of the loop of line 266
  lastCall,        \* the most recent NVML call
  issued,          \* the (task, op) pairs of the NVML calls made so far
  defaultCalls,    \* per fan index, the SetDefaultFanSpeed calls made
  restorations,    \* how many times the restoration function has run
  hist             \* history: what failed, what followed the cancel signal,
                   \* and the fan writes of the current tick

vars == <<speeds, dryrun, deviceFans, mainPc, fanSpeedConfig, speedMap, handle, loopPc,
          loopOutcome, numFans, fanIdx, temperature, tickC, cancelCh,
          cancelClosed, gracefulStop, notified, wg, restoreFans, restoreIdx,
          lastCall, issued, defaultCalls, restorations, hist>>

configVars == <<speeds, dryrun, deviceFans>>
staticVars == <<configVars, fanSpeedConfig>>
loopVars == <<loopPc, loopOutcome, numFans, fanIdx, temperature>>
chanVars == <<tickC, cancelCh, cancelClosed, gracefulStop, notified, wg>>
restoreVars == <<restoreFans, restoreIdx, defaultCalls, restorations>>
callVars == <<lastCall, issued>>

NoCall == [task |-> "none", op |-> "none", idx |-> 0, val |-> 0]

\* nothing has been compiled, started or called yet
NothingStarted ==
  /\ speedMap = [t \in {} |-> 0]
  /\ handle = FALSE
  /\ loopPc = "notStarted"
  /\ loopOutcome = "none"
  /\ numFans = 0
  /\ fanIdx = 0
  /\ temperature = 0
  /\ tickC = 0
  /\ cancelCh = 0
  /\ cancelClosed = FALSE
  /\ gracefulStop = 0
  /\ notified = FALSE
  /\ wg = 0
  /\ restoreFans = 0
  /\ restoreIdx = 0
  /\ lastCall = NoCall
  /\ issued = {}
  /\ defaultCalls = [i \in 0..(MaxFans - 1) |-> 0]
  /\ restorations = 0
  /\ hist = [initFailed |-> FALSE, countFailed |-> FALSE,
             handleFailed |-> FALSE, restoreCountFailed |-> FALSE,
             defaultFailed |-> {}, cancelWhileRunning |-> FALSE,
             readsAfterCancel |-> 0, tickWrites |-> <<>>]

\* main() is about to parse its flags
StartState ==
  /\ mainPc = "parse"
  /\ fanSpeedConfig = <<>>
  /\ NothingStarted

Init ==
  /\ speeds \in SpeedsFlags
  /\ dryrun \in BOOLEAN
  /\ deviceFans \in 0..MaxFans
  /\ StartState

\* an NVML call by task: recorded as the last call and in the set of calls
Call(task, op, idx, val) ==
  /\ lastCall' = [task |-> task, op |-> op, idx |-> idx, val |-> val]
  /\ issued' = issued \cup {[task |-> task, op |-> op]}

\* --------------------------------------------------------------------- main

\* lines 211-215: a parse error ends main before anything else happens
MainParse ==
  /\ mainPc = "parse"
  /\ LET parsed == parseSpeedConfigFlag(speeds)
     IN  /\ fanSpeedConfig' = parsed.cfg
         /\ mainPc' = IF parsed.ok THEN "logLevel" ELSE "exited"
  /\ UNCHANGED <<configVars, speedMap, handle, loopVars, chanVars,
                 restoreVars, callVars, hist>>

\* lines 217-225: the log level is parsed (it may be rejected), then the
\* table is compiled
MainLogLevel ==
  /\ mainPc = "logLevel"
  /\ \E ok \in BOOLEAN :
       IF ok
         THEN /\ speedMap' = generateTempNFanSpeedMap(fanSpeedConfig)
              /\ mainPc' = "nvmlInit"
         ELSE /\ mainPc' = "exited"
              /\ UNCHANGED speedMap
  /\ UNCHANGED <<staticVars, handle, loopVars, chanVars, restoreVars,
                 callVars, hist>>

\* lines 228-239: nvml.Init; on success nvml.Shutdown is deferred
MainNvmlInit ==
  /\ mainPc = "nvmlInit"
  /\ Call("main", "Init", 0, 0)
  /\ \E ok \in BOOLEAN :
       /\ mainPc' = IF ok THEN "getCount" ELSE "exited"
       /\ hist' = [hist EXCEPT !.initFailed = ~ok]
  /\ UNCHANGED <<staticVars, speedMap, handle, loopVars, chanVars,
                 restoreVars>>

\* lines 242-246: nvml.DeviceGetCount; a failure is logged and main goes on
MainGetCount ==
  /\ mainPc = "getCount"
  /\ Call("main", "DeviceGetCount", 0, 0)
  /\ \E ok \in BOOLEAN : hist' = [hist EXCEPT !.countFailed = ~ok]
  /\ mainPc' = "getHandle"
  /\ UNCHANGED <<staticVars, speedMap, handle, loopVars, chanVars,
                 restoreVars>>

\* lines 248-272: nvml.DeviceGetHandleByIndex; on success the restoration
\* function is deferred, on failure main returns (nvml.Shutdown runs)
MainGetHandle ==
  /\ mainPc = "getHandle"
  /\ Call("main", "DeviceGetHandleByIndex", 0, 0)
  /\ \E ok \in BOOLEAN :
       /\ handle' = ok
       /\ mainPc' = IF ok THEN "printInfo" ELSE "shutdown"
       /\ hist' = [hist EXCEPT !.handleFailed = ~ok]
  /\ UNCHANGED <<staticVars, speedMap, loopVars, chanVars, restoreVars>>

\* line 274: printDeviceInfo only reads from the device
MainPrintDeviceInfo ==
  /\ mainPc = "printInfo"
  /\ Call("main", "printDeviceInfo", 0, 0)
  /\ mainPc' = "go"
  /\ UNCHANGED <<staticVars, speedMap, handle, loopVars, chanVars,
                 restoreVars, hist>>

\* lines 276-282: wg.Add(1) and the go statement
MainGo ==
  /\ mainPc = "go"
  /\ wg' = wg + 1
  /\ loopPc' = "start"
  /\ mainPc' = "notify"
  /\ UNCHANGED <<staticVars, speedMap, handle, loopOutcome, numFans, fanIdx,
                 temperature, tickC, cancelCh, cancelClosed, gracefulStop,
                 notified, restoreVars, callVars, hist>>

\* lines 284-286: signal.Notify for SIGTERM and SIGINT
MainNotify ==
  /\ mainPc = "notify"
  /\ notified' = TRUE
  /\ mainPc' = "waitSignal"
  /\ UNCHANGED <<staticVars, speedMap, handle, loopVars, tickC, cancelCh,
                 cancelClosed, gracefulStop, wg, restoreVars, callVars, hist>>

\* line 288: <-gracefulStop
MainRecvSignal ==
  /\ mainPc = "waitSignal"
  /\ gracefulStop > 0
  /\ gracefulStop' = gracefulStop - 1
  /\ mainPc' = "sendCancel"
  /\ UNCHANGED <<staticVars, speedMap, handle, loopVars, tickC, cancelCh,
                 cancelClosed, notified, wg, restoreVars, callVars, hist>>

\* the goroutine is in the for loop of lines 77-108 (the Running state)
InTickLoop == loopPc \in {"select", "getTemp", "setFan"}

\* line 289: cancel <- true proceeds when the buffer has room
MainSendCancel ==
  /\ mainPc = "sendCancel"
  /\ cancelCh < CancelCap
  /\ cancelCh' = cancelCh + 1
  /\ mainPc' = "wgWait"
  /\ hist' = [hist EXCEPT !.cancelWhileRunning = InTickLoop]
  /\ UNCHANGED <<staticVars, speedMap, handle, loopVars, tickC, cancelClosed,
                 gracefulStop, notified, wg, restoreVars, callVars>>

\* line 290: wg.Wait returns when the counter is zero
WgWaitNoJoin(counter) == TRUE
WgWaitReturns(counter) == counter = 0

MainWgWait ==
  /\ mainPc = "wgWait"
  /\ WgWaitReturns(wg)
  /\ mainPc' = "closeCancel"
  /\ UNCHANGED <<staticVars, speedMap, handle, loopVars, chanVars,
                 restoreVars, callVars, hist>>

\* lines 291-294: close(cancel), then main returns to its deferred functions
MainCloseCancel ==
  /\ mainPc = "closeCancel"
  /\ cancelClosed' = TRUE
  /\ mainPc' = "restore"
  /\ UNCHANGED <<staticVars, speedMap, handle, loopVars, tickC, cancelCh,
                 gracefulStop, notified, wg, restoreVars, callVars, hist>>

\* line 256: under dry-run the restoration only logs
RestoreSkipped(dry) == dry

\* line 266: the loop over the fans ends when i reaches numFans
RestoreLoopEndsEarly(i, n) == i >= n - 1
RestoreLoopEnds(i, n) == i >= n

\* lines 255-265: the deferred restoration function starts; without dry-run
\* it reads the fan count (0 when nvml.DeviceGetNumFans fails)
MainRestoreBegin ==
  /\ mainPc = "restore"
  /\ restorations' = restorations + 1
  /\ IF RestoreSkipped(dryrun)
       THEN /\ mainPc' = "shutdown"
            /\ UNCHANGED <<restoreFans, restoreIdx, callVars, hist>>
       ELSE /\ Call("main", "DeviceGetNumFans", 0, 0)
            /\ \E ok \in BOOLEAN :
                 /\ restoreFans' = IF ok THEN deviceFans ELSE 0
                 /\ hist' = [hist EXCEPT !.restoreCountFailed = ~ok]
            /\ restoreIdx' = 0
            /\ mainPc' = IF RestoreLoopEnds(0, restoreFans')
                           THEN "shutdown" ELSE "setDefault"
  /\ UNCHANGED <<staticVars, speedMap, handle, loopVars, chanVars,
                 defaultCalls>>

\* after a failed nvml.DeviceSetDefaultFanSpeed_v2 the loop of line 266 goes
\* on with the next fan
AfterDefaultFailureStop(i, n) == n
AfterDefaultFailure(i, n) == i + 1

\* lines 266-271: nvml.DeviceSetDefaultFanSpeed_v2 for fan restoreIdx
MainSetDefault ==
  /\ mainPc = "setDefault"
  /\ Call("main", "DeviceSetDefaultFanSpeed", restoreIdx, 0)
  /\ defaultCalls' = [defaultCalls EXCEPT ![restoreIdx] = @ + 1]
  /\ \E ok \in BOOLEAN :
       /\ restoreIdx' = IF ok THEN restoreIdx + 1
                              ELSE AfterDefaultFailure(restoreIdx, restoreFans)
       /\ hist' = [hist EXCEPT !.defaultFailed =
                                 IF ok THEN @ ELSE @ \cup {restoreIdx}]
  /\ mainPc' = IF RestoreLoopEnds(restoreIdx', restoreFans)
                 THEN "shutdown" ELSE "setDefault"
  /\ UNCHANGED <<staticVars, speedMap, handle, loopVars, chanVars,
                 restoreFans, restorations>>

\* lines 233-239: the deferred nvml.Shutdown, after which main has returned
MainShutdown ==
  /\ mainPc = "shutdown"
  /\ Call("main", "Shutdown", 0, 0)
  /\ mainPc' = "exited"
  /\ UNCHANGED <<staticVars, speedMap, handle, loopVars, chanVars,
                 restoreVars, hist>>

\* main() from line 217 on, after the -speeds flag was parsed
MainAfterParse ==
  \/ MainLogLevel \/ MainNvmlInit \/ MainGetCount
  \/ MainGetHandle \/ MainPrintDeviceInfo \/ MainGo \/ MainNotify
  \/ MainRecvSignal \/ MainSendCancel \/ MainWgWait \/ MainCloseCancel
  \/ MainRestoreBegin \/ MainSetDefault \/ MainShutdown

Main == MainParse \/ MainAfterParse

\* ------------------------------------------------------------- control loop

\* the process runs until main returns
ProcessAlive == mainPc # "exited"

\* runCustomGPUFanCurve is between its NewTicker and its return
LoopRunning ==
  loopPc \in {"getName", "getNumFans", "select", "getTemp", "setFan"}

\* the goroutine was started and has not yet called wg.Done
LoopTaskLive == loopPc \notin {"notStarted", "exited"}

Bump(n) == IF n < MaxReadsAfterCancel THEN n + 1 ELSE n

\* lines 66-67: time.NewTicker
LoopNewTicker ==
  /\ ProcessAlive
  /\ loopPc = "start"
  /\ loopPc' = "getName"
  /\ UNCHANGED <<staticVars, mainPc, speedMap, handle, loopOutcome, numFans,
                 fanIdx, temperature, chanVars, restoreVars, callVars, hist>>

\* the ticker puts a tick in ticker.C when the buffer is empty
Tick ==
  /\ ProcessAlive
  /\ LoopRunning
  /\ tickC = 0
  /\ tickC' = 1
  /\ UNCHANGED <<staticVars, mainPc, speedMap, handle, loopVars, cancelCh,
                 cancelClosed, gracefulStop, notified, wg, restoreVars,
                 callVars, hist>>

\* lines 69-72: device.GetName
LoopGetName ==
  /\ ProcessAlive
  /\ loopPc = "getName"
  /\ Call("loop", "GetName", 0, 0)
  /\ \E ok \in BOOLEAN :
       /\ loopPc' = IF ok THEN "getNumFans" ELSE "returned"
       /\ loopOutcome' = IF ok THEN "none" ELSE "error"
  /\ UNCHANGED <<staticVars, mainPc, speedMap, handle, numFans, fanIdx,
                 temperature, chanVars, restoreVars, hist>>

\* lines 73-76: nvml.DeviceGetNumFans
LoopGetNumFans ==
  /\ ProcessAlive
  /\ loopPc = "getNumFans"
  /\ Call("loop", "DeviceGetNumFans", 0, 0)
  /\ \E ok \in BOOLEAN :
       /\ loopPc' = IF ok THEN "select" ELSE "returned"
       /\ loopOutcome' = IF ok THEN "none" ELSE "error"
       /\ numFans' = IF ok THEN deviceFans ELSE 0
  /\ UNCHANGED <<staticVars, mainPc, speedMap, handle, fanIdx, temperature,
                 chanVars, restoreVars, hist>>

\* lines 78-79: the select takes the tick
LoopRecvTick ==
  /\ ProcessAlive
  /\ loopPc = "select"
  /\ tickC > 0
  /\ tickC' = tickC - 1
  /\ loopPc' = "getTemp"
  /\ hist' = [hist EXCEPT !.tickWrites = <<>>]
  /\ UNCHANGED <<staticVars, mainPc, speedMap, handle, loopOutcome, numFans,
                 fanIdx, temperature, cancelCh, cancelClosed, gracefulStop,
                 notified, wg, restoreVars, callVars>>

\* line 88: the key looked up in the table, speedMap[uint8(temperature)]
LookupKey(t) == Uint8(t)

\* line 96: under dry-run the fan speed is only logged
WriteSkippedNever(dry) == FALSE
WriteSkipped(dry) == dry

\* line 95: the loop over the fans goes on while i < numFans; a loop bounded
\* by numFans - 1 would leave the last fan out
FanLoopSkipsLast(i, n) == i < n - 1
FanLoopGoesOn(i, n) == i < n

\* lines 81-95: nvml.DeviceGetTemperature, then the lookup; a miss goes back
\* to the select, a hit starts the loop over the fans
LoopGetTemperature ==
  /\ ProcessAlive
  /\ loopPc = "getTemp"
  /\ Call("loop", "DeviceGetTemperature", 0, 0)
  /\ hist' = IF hist.cancelWhileRunning
               THEN [hist EXCEPT !.readsAfterCancel = Bump(@)]
               ELSE hist
  /\ \E ok \in BOOLEAN :
       IF ok
         THEN \E t \in Readings :
                /\ temperature' = t
                /\ loopOutcome' = "none"
                /\ fanIdx' = 0
                /\ loopPc' = IF /\ LookupKey(t) \in DOMAIN speedMap
                                /\ ~WriteSkipped(dryrun)
                                /\ FanLoopGoesOn(0, numFans)
                               THEN "setFan" ELSE "select"
         ELSE /\ loopPc' = "returned"
              /\ loopOutcome' = "error"
              /\ UNCHANGED <<temperature, fanIdx>>
  /\ UNCHANGED <<staticVars, mainPc, speedMap, handle, numFans, chanVars,
                 restoreVars>>

\* line 99: a failed nvml.DeviceSetFanSpeed_v2 makes runCustomGPUFanCurve
\* return; it does not go on with the loop over the fans
AfterWriteFailureGoOn == "setFan"
AfterWriteFailure == "returned"

\* lines 95-100: nvml.DeviceSetFanSpeed_v2 for fan fanIdx; a failure returns
LoopSetFanSpeed ==
  /\ ProcessAlive
  /\ loopPc = "setFan"
  /\ Call("loop", "DeviceSetFanSpeed", fanIdx,
          speedMap[LookupKey(temperature)])
  /\ hist' = [hist EXCEPT !.tickWrites =
                 Append(@, <<fanIdx, speedMap[LookupKey(temperature)]>>)]
  /\ \E ok \in BOOLEAN :
       IF ok
         THEN /\ fanIdx' = fanIdx + 1
              /\ loopPc' = IF FanLoopGoesOn(fanIdx + 1, numFans)
                             THEN "setFan" ELSE "select"
              /\ loopOutcome' = "none"
         ELSE /\ loopPc' = AfterWriteFailure
              /\ loopOutcome' = "error"
              /\ UNCHANGED fanIdx
  /\ UNCHANGED <<staticVars, mainPc, speedMap, handle, numFans, temperature,
                 chanVars, restoreVars>>

\* the select can take the cancel case when a value is buffered
CancelReadyOnlyWhenIdle == cancelCh > 0 /\ tickC = 0
CancelReady == cancelCh > 0

\* lines 105-106: the select takes the cancel signal and returns nil
LoopRecvCancel ==
  /\ ProcessAlive
  /\ loopPc = "select"
  /\ CancelReady
  /\ cancelCh' = cancelCh - 1
  /\ loopPc' = "returned"
  /\ loopOutcome' = "cancelled"
  /\ UNCHANGED <<staticVars, mainPc, speedMap, handle, numFans, fanIdx,
                 temperature, tickC, cancelClosed, gracefulStop, notified, wg,
                 restoreVars, callVars, hist>>

\* lines 278-281: the goroutine logs the error, if any, and calls wg.Done
LoopDone ==
  /\ ProcessAlive
  /\ loopPc = "returned"
  /\ wg' = wg - 1
  /\ loopPc' = "exited"
  /\ UNCHANGED <<staticVars, mainPc, speedMap, handle, loopOutcome, numFans,
                 fanIdx, temperature, tickC, cancelCh, cancelClosed,
                 gracefulStop, notified, restoreVars, callVars, hist>>

Loop ==
  \/ LoopNewTicker \/ LoopGetName \/ LoopGetNumFans \/ LoopRecvTick
  \/ LoopGetTemperature \/ LoopSetFanSpeed \/ LoopRecvCancel \/ LoopDone

\* -------------------------------------------------------------- environment

\* SIGTERM or SIGINT arrives: the runtime puts it in gracefulStop when the
\* buffer has room and drops it otherwise
Signal ==
  /\ ProcessAlive
  /\ notified
  /\ gracefulStop < SignalCap
  /\ gracefulStop' = gracefulStop + 1
  /\ UNCHANGED <<staticVars, mainPc, speedMap, handle, loopVars, tickC,
                 cancelCh, cancelClosed, notified, wg, restoreVars, callVars,
                 hist>>

\* ------------------------------------------------------------ specification

Next == Main \/ Loop \/ Tick \/ Signal

Spec == Init /\ [][Next]_vars

\* Every step of main and of the goroutine is eventually taken when it stays
\* possible, the ticker keeps ticking, and a select that again and again has
\* the cancel case ready eventually takes it (Go picks among the ready cases
\* uniformly at random). Nothing is assumed about signals arriving.
FairSpec ==
  /\ Spec
  /\ WF_vars(Main)
  /\ WF_vars(Loop)
  /\ WF_vars(Tick)
  /\ SF_vars(LoopRecvCancel)

\* ------------------------------------------------- the compiler on its own
\* main() from its start to the compiled table (lines 211-225), for the
\* -speeds strings of CurveFlags.

CompileInit ==
  /\ speeds \in CurveFlags
  /\ dryrun = FALSE
  /\ deviceFans = 0
  /\ StartState

CompileNext == MainParse \/ MainLogLevel

CompileSpec == CompileInit /\ [][CompileNext]_vars

\* ------------------------------------------------ a session on a given list
\* main() from line 217 on with fanSpeedConfig given as a list of breakpoints:
\* the empty list, which generateTempNFanSpeedMap handles at lines 27-31 and
\* parseSpeedConfigFlag never returns, or the default curve.

DefaultCurve == parseSpeedConfigFlag(DefaultSpeeds).cfg

GivenCurveInit ==
  /\ fanSpeedConfig \in {<<>>, DefaultCurve}
  /\ speeds = Encode(fanSpeedConfig)
  /\ dryrun \in BOOLEAN
  /\ deviceFans \in 0..MaxFans
  /\ mainPc = "logLevel"
  /\ NothingStarted

GivenCurveNext == MainAfterParse \/ Loop \/ Tick \/ Signal

GivenCurveSpec == GivenCurveInit /\ [][GivenCurveNext]_vars

\* ------------------------------------------------------------------- claims

FanWrites == {"DeviceSetFanSpeed", "DeviceSetDefaultFanSpeed"}

\* an NVML call made by main in this step
MainCall ==
  \/ MainNvmlInit \/ MainGetCount \/ MainGetHandle \/ MainPrintDeviceInfo
  \/ (MainRestoreBegin /\ ~dryrun) \/ MainSetDefault \/ MainShutdown

RestorationStarted ==
  restorations > 0 \/ \E i \in DOMAIN defaultCalls : defaultCalls[i] > 0

LoopTerminated == loopPc \in {"returned", "exited"}

\* the element e of a -speeds string is two ':'-separated integers
WellFormedPair(e) ==
  LET f == Split(e, Colon)
  IN  /\ Len(f) = 2
      /\ \A j \in 1..2 : Len(f[j]) = 1 /\ f[j][1][1] = "n"

\* the well-formed element e has its temperature and its speed in range
PairInRange(e) ==
  LET f == Split(e, Colon)
  IN  /\ MIN_TEMP <= f[1][1][2] /\ f[1][1][2] <= MAX_TEMP
      /\ 0 <= f[2][1][2] /\ f[2][1][2] <= MAX_FAN_SPEED_PERCENT

\* the -speeds string s is malformed or has a value out of range
BadCurve(s) ==
  \E k \in 1..Len(Split(s, Comma)) :
    LET e == Split(s, Comma)[k]
    IN  ~WellFormedPair(e) \/ ~PairInRange(e)

\* C1: while the goroutine of the control loop is live (started, wg.Done not
\* yet called) no step of main is an NVML call, and once the restoration has
\* started no step is a DeviceSetFanSpeed call.
C1_MainIdleWhileLoopLive ==
  [][ /\ (MainCall => ~LoopTaskLive)
      /\ (LoopSetFanSpeed => ~RestorationStarted) ]_vars

\* C1 witness: the loop has set a fan speed, exited, and the restoration has
\* since set a fan back to its default
C1_Witness ==
  /\ [task |-> "loop", op |-> "DeviceSetFanSpeed"] \in issued
  /\ [task |-> "main", op |-> "DeviceSetDefaultFanSpeed"] \in issued
  /\ loopPc = "exited"

\* a step the program takes by itself: any step but the arrival of a signal
ProgramStep == Main \/ Loop \/ Tick

\* C2: once the loop has returned an error the session is torn down without
\* a signal being needed: until main has returned after the restoration, the
\* program always has a step of its own to take.
C2_LoopErrorEndsSession ==
  loopOutcome = "error"
    => \/ (mainPc = "exited" /\ restorations = 1)
       \/ ENABLED ProgramStep

\* C3: once a signal is in gracefulStop, the loop task exits, the restoration
\* runs and main returns, whatever state the loop task was in.
C3_SignalLeadsToExit ==
  (gracefulStop > 0)
    ~> (mainPc = "exited" /\ loopPc = "exited" /\ restorations = 1)

\* C3 witness: the loop had already returned an error when the cancel value
\* was sent (it is still in the buffer), and the process has exited
C3_Witness ==
  /\ mainPc = "exited"
  /\ loopOutcome = "error"
  /\ cancelCh = 1
  /\ restorations = 1

\* C4: the restoration never runs twice and no fan gets two
\* DeviceSetDefaultFanSpeed calls; when main has returned after acquiring the
\* handle the restoration has run once, and without dry-run and with the fan
\* count read, every fan of the device has had exactly one call.
C4_RestorationExactlyOnce ==
  /\ restorations <= 1
  /\ \A i \in DOMAIN defaultCalls : defaultCalls[i] <= 1
  /\ (mainPc = "exited" /\ handle) => restorations = 1
  /\ (mainPc = "exited" /\ handle /\ ~dryrun /\ ~hist.restoreCountFailed)
       => \A i \in DOMAIN defaultCalls :
            defaultCalls[i] = IF i < deviceFans THEN 1 ELSE 0

\* C4 witness: a session without dry-run on a device with MaxFans fans has
\* exited after its restoration read the fan count
C4_Witness ==
  /\ mainPc = "exited"
  /\ handle
  /\ ~dryrun
  /\ ~hist.restoreCountFailed
  /\ deviceFans = MaxFans
  /\ restorations = 1

\* a session whose -speeds string is well formed and in range and whose
\* hardware initialisation had no failure
CleanStart == ~BadCurve(speeds) /\ ~hist.countFailed

\* C5 (as claimed, for sessions with a clean start): after the cancel value
\* was sent to a running loop, the loop never performs two or more sensor
\* reads.
C5_AtMostOneReadAfterCancel ==
  (CleanStart /\ hist.cancelWhileRunning) => hist.readsAfterCancel <= 1

\* C5 (amended): after the cancel value was sent to a running loop, the loop
\* terminates; it has terminated without error exactly when it has taken the
\* value out of the channel; and once it has, it makes no sensor read and no
\* fan write.
C5_CancelEndsLoop ==
  /\ hist.cancelWhileRunning ~> LoopTerminated
  /\ [](hist.cancelWhileRunning /\ LoopTerminated
          => (loopOutcome = "cancelled" <=> cancelCh = 0))
  /\ [][loopOutcome = "cancelled"
          => ~(LoopGetTemperature \/ LoopSetFanSpeed)]_vars

\* C5 witness: the loop read the sensor twice after the cancel value was
\* sent, and then took the cancel case
C5_Witness ==
  /\ hist.cancelWhileRunning
  /\ hist.readsAfterCancel >= 2
  /\ loopOutcome = "cancelled"

\* C6: under dry-run no DeviceSetFanSpeed and no DeviceSetDefaultFanSpeed
\* call is ever made.
C6_DryRunNeverWrites ==
  dryrun => \A c \in issued : c.op \notin FanWrites

\* C6 witness: a dry-run session on a device with fans has read a temperature
\* that the table maps, and has run its restoration and exited
C6_Witness ==
  /\ dryrun
  /\ deviceFans > 0
  /\ temperature = 37
  /\ LookupKey(temperature) \in DOMAIN speedMap
  /\ restorations = 1
  /\ mainPc = "exited"

\* C7 (for sessions with a clean start): a reading outside
\* [MIN_TEMP, MAX_TEMP] is a miss: the loop never sets a fan speed for it.
C7_OutOfDomainReadingIsMiss ==
  (CleanStart /\ loopPc = "setFan")
    => (MIN_TEMP <= temperature /\ temperature <= MAX_TEMP)

\* C8: with a malformed or out-of-range -speeds string, main ends at the
\* parse: no NVML call is made and the loop is never started.
C8_BadCurveRejected ==
  BadCurve(speeds)
    => (mainPc \in {"parse", "exited"} /\ issued = {} /\ loopPc = "notStarted")

\* C9: after a failed nvml.Init, nvml.DeviceGetCount or
\* nvml.DeviceGetHandleByIndex main is on its way out: the loop is never
\* started, no fan write is made and the restoration does not run.
C9_InitFailureEndsSession ==
  (hist.initFailed \/ hist.countFailed \/ hist.handleFailed)
    => /\ mainPc \in {"shutdown", "exited"}
       /\ loopPc = "notStarted"
       /\ restorations = 0
       /\ \A c \in issued : c.op \notin FanWrites

LoopReads == {"GetName", "DeviceGetNumFans", "DeviceGetTemperature"}

\* C11: with an empty curve the compiled table has no entry; in a session
\* using it the loop never reaches the loop over the fans and makes no
\* DeviceSetFanSpeed call, and it returns only by taking the cancel value or
\* after a failed read.
C11_EmptyCurveNeverWrites ==
  Len(fanSpeedConfig) = 0
    => /\ DOMAIN speedMap = {}
       /\ loopPc # "setFan"
       /\ [task |-> "loop", op |-> "DeviceSetFanSpeed"] \notin issued
       /\ (loopPc = "returned"
             => loopOutcome = "cancelled" \/ lastCall.op \in LoopReads)

\* C11 witness: a session without dry-run on a device with fans compiled the
\* empty curve, read 37 degrees on its last tick, was cancelled and has exited
C11_Witness ==
  /\ Len(fanSpeedConfig) = 0
  /\ ~dryrun
  /\ deviceFans = MaxFans
  /\ temperature = 37
  /\ loopOutcome = "cancelled"
  /\ mainPc = "exited"

\* main has compiled the table from fanSpeedConfig
Compiled == mainPc = "nvmlInit"

\* the breakpoints of curve c have strictly increasing temperatures
StrictlyIncreasing(c) == \A i \in 1..(Len(c) - 1) : c[i][1] < c[i + 1][1]

\* the breakpoints of curve c have temperatures in [MIN_TEMP, MAX_TEMP] and
\* speeds in [0, MAX_FAN_SPEED_PERCENT]
InDomain(c) ==
  \A i \in 1..Len(c) :
    /\ MIN_TEMP <= c[i][1] /\ c[i][1] <= MAX_TEMP
    /\ 0 <= c[i][2] /\ c[i][2] <= MAX_FAN_SPEED_PERCENT

\* a non-empty curve with strictly increasing temperatures, in the domain
ValidCurve(c) == Len(c) > 0 /\ StrictlyIncreasing(c) /\ InDomain(c)

\* C12: the table compiled from a valid curve, whether its speeds rise or
\* fall, has an entry for every temperature of [MIN_TEMP, MAX_TEMP] and for no
\* other, and every speed in it is in [0, MAX_FAN_SPEED_PERCENT].
C12_TableCoversDomainInRange ==
  (Compiled /\ ValidCurve(fanSpeedConfig))
    => /\ DOMAIN speedMap = MIN_TEMP..MAX_TEMP
       /\ \A t \in DOMAIN speedMap :
            0 <= speedMap[t] /\ speedMap[t] <= MAX_FAN_SPEED_PERCENT

\* C13: in the table compiled from a valid curve, the speeds over
\* [temp_start, temp_end) of every pair of adjacent breakpoints are
\* non-decreasing when speed_end >= speed_start and non-increasing when
\* speed_end < speed_start.
C13_SegmentMonotone ==
  (Compiled /\ ValidCurve(fanSpeedConfig))
    => \A i \in 1..(Len(fanSpeedConfig) - 1) :
         \A t \in fanSpeedConfig[i][1]..(fanSpeedConfig[i + 1][1] - 2) :
           IF fanSpeedConfig[i + 1][2] >= fanSpeedConfig[i][2]
             THEN speedMap[t] <= speedMap[t + 1]
             ELSE speedMap[t] >= speedMap[t + 1]

\* the last breakpoint of the curve in use
LastPoint == fanSpeedConfig[Len(fanSpeedConfig)]

\* C14 (as claimed): in the table compiled from a valid curve every
\* temperature of the domain at or above the last breakpoint's maps to one
\* fixed value, MAX_FAN_SPEED_PERCENT or the last breakpoint's speed.
C14_FixedAboveLast ==
  (Compiled /\ ValidCurve(fanSpeedConfig))
    => \E v \in {MAX_FAN_SPEED_PERCENT, LastPoint[2]} :
         \A u \in LastPoint[1]..MAX_TEMP : speedMap[u] = v

\* C14 (amended): in the table compiled from a valid curve with last
\* breakpoint (t, s), the temperatures u of the domain from t on map to a ramp
\* from s toward MAX_FAN_SPEED_PERCENT at MAX_TEMP + 1: t maps to s, the
\* speeds never decrease with u, and each is at most the straight line
\* s + (100 - s)(u - t)/(151 - t) and at most one below it; with s = 100 all
\* of them are 100.
C14_RampAboveLast ==
  (Compiled /\ ValidCurve(fanSpeedConfig))
    => LET t == LastPoint[1]
           s == LastPoint[2]
           D == MAX_TEMP + 1 - t
       IN  /\ speedMap[t] = s
           /\ \A u \in t..(MAX_TEMP - 1) : speedMap[u] <= speedMap[u + 1]
           /\ \A u \in t..MAX_TEMP :
                LET N == (MAX_FAN_SPEED_PERCENT - s) * (u - t)
                    v == speedMap[u] - s
                IN  v * D <= N /\ (v + 1) * D >= N
           /\ (s = MAX_FAN_SPEED_PERCENT
                 => \A u \in t..MAX_TEMP : speedMap[u] = s)

\* C14 witness: the curve (0,0),(40,50) was compiled: 40 degrees maps to 50
\* and 150 degrees to 99
C14_Witness ==
  /\ Compiled
  /\ fanSpeedConfig = <<<<0, 0>>, <<40, 50>>>>
  /\ speedMap[40] = 50
  /\ speedMap[MAX_TEMP] = 99

\* the curve in use is one valid breakpoint
SingleBreakpoint == Len(fanSpeedConfig) = 1 /\ ValidCurve(fanSpeedConfig)

\* C15 (as claimed, for t below MAX_TEMP): the table compiled from a single
\* breakpoint (t, s) maps every temperature below t to 0, t to s, and
\* MAX_TEMP to MAX_FAN_SPEED_PERCENT.
C15_SingleReachesMaxAtCeiling ==
  (Compiled /\ SingleBreakpoint /\ LastPoint[1] < MAX_TEMP)
    => /\ \A u \in MIN_TEMP..(LastPoint[1] - 1) : speedMap[u] = 0
       /\ speedMap[LastPoint[1]] = LastPoint[2]
       /\ speedMap[MAX_TEMP] = MAX_FAN_SPEED_PERCENT

\* C15 (amended): the table compiled from a single breakpoint (t, s) maps
\* every temperature below t to 0 and t to s, never decreases from t on, and
\* maps MAX_TEMP to s + floor((100 - s)(150 - t)/(151 - t)): the ramp reaches
\* MAX_FAN_SPEED_PERCENT at MAX_TEMP + 1, and the entry for MAX_TEMP is
\* MAX_FAN_SPEED_PERCENT only when s is.
C15_SingleRampsTowardMax ==
  (Compiled /\ SingleBreakpoint)
    => LET t == LastPoint[1]
           s == LastPoint[2]
       IN  /\ \A u \in MIN_TEMP..(t - 1) : speedMap[u] = 0
           /\ speedMap[t] = s
           /\ \A u \in t..(MAX_TEMP - 1) : speedMap[u] <= speedMap[u + 1]
           /\ speedMap[MAX_TEMP] =
                s + ((MAX_FAN_SPEED_PERCENT - s) * (MAX_TEMP - t))
                      \div (MAX_TEMP + 1 - t)
           /\ (speedMap[MAX_TEMP] = MAX_FAN_SPEED_PERCENT
                 <=> s = MAX_FAN_SPEED_PERCENT)

\* C15 witness: the single breakpoint (40,50) was compiled: 39 degrees maps
\* to 0, 40 to 50 and 150 to 99
C15_Witness ==
  /\ Compiled
  /\ fanSpeedConfig = <<<<40, 50>>>>
  /\ speedMap[39] = 0
  /\ speedMap[40] = 50
  /\ speedMap[MAX_TEMP] = 99

\* C16: the table compiled from a valid curve maps the temperature of every
\* breakpoint to the speed declared for it.
C16_BreakpointKeepsItsSpeed ==
  (Compiled /\ ValidCurve(fanSpeedConfig))
    => \A i \in 1..Len(fanSpeedConfig) :
         speedMap[fanSpeedConfig[i][1]] = fanSpeedConfig[i][2]

\* C16 witness: the curve (40,50),(50,40), whose speed falls, was compiled:
\* 40 degrees maps to 50 and 50 degrees to 40, with another speed in between
C16_Witness ==
  /\ Compiled
  /\ fanSpeedConfig = <<<<40, 50>>, <<50, 40>>>>
  /\ speedMap[40] = 50
  /\ speedMap[45] = 173
  /\ speedMap[50] = 40

\* C17 (as claimed): the table compiled from a non-empty curve maps every
\* temperature below the first breakpoint's to 0.
C17_ZeroBelowFirst ==
  (Compiled /\ Len(fanSpeedConfig) > 0 /\ InDomain(fanSpeedConfig))
    => \A u \in MIN_TEMP..(fanSpeedConfig[1][1] - 1) : speedMap[u] = 0

\* no breakpoint of curve c has a temperature below the first one's
FirstIsLowest(c) == \A i \in 1..Len(c) : c[1][1] <= c[i][1]

\* C17 (amended): the table compiled from a non-empty curve none of whose
\* breakpoints has a temperature below the first one's maps every temperature
\* below the first breakpoint's to 0.
C17_ZeroBelowFirstWhenLowest ==
  (Compiled /\ Len(fanSpeedConfig) > 0 /\ FirstIsLowest(fanSpeedConfig))
    => \A u \in MIN_TEMP..(fanSpeedConfig[1][1] - 1) : speedMap[u] = 0

\* C17 witness: the curve (40,50),(50,100) was compiled: 39 degrees maps to
\* 0 and 40 degrees to 50
C17_Witness ==
  /\ Compiled
  /\ fanSpeedConfig = <<<<40, 50>>, <<50, 100>>>>
  /\ speedMap[MIN_TEMP] = 0
  /\ speedMap[39] = 0
  /\ speedMap[40] = 50

\* C18: the table compiled from the default -speeds string maps 0..34
\* degrees to 0, 35 to 40, 37 to 44, 40 to 50 and 80..150 to 100.
C18_DefaultCurveTable ==
  (Compiled /\ speeds = DefaultSpeeds)
    => /\ \A u \in 0..34 : speedMap[u] = 0
       /\ speedMap[35] = 40
       /\ speedMap[37] = 44
       /\ speedMap[40] = 50
       /\ \A u \in 80..150 : speedMap[u] = 100

\* C18 witness: the default -speeds string was parsed into its five
\* breakpoints and compiled into a table over 0..150; 79 degrees maps to 99
C18_Witness ==
  /\ Compiled
  /\ speeds = DefaultSpeeds
  /\ fanSpeedConfig =
       <<<<35, 40>>, <<40, 50>>, <<50, 60>>, <<60, 90>>, <<80, 100>>>>
  /\ DOMAIN speedMap = MIN_TEMP..MAX_TEMP
  /\ speedMap[79] = 99

\* a step of the loop that reads the sensor or writes a fan speed
LoopReadOrWrite == LoopGetTemperature \/ LoopSetFanSpeed

\* C19: a sensor read or fan write that fails leaves the loop returned with
\* an error; once the loop has returned an error it makes no sensor read and
\* no fan write and stays terminated with that error; and the writes of its
\* last tick stop at the fan whose write failed.
C19_FailureEndsLoop ==
  /\ [][ /\ (LoopReadOrWrite /\ loopOutcome' = "error"
               => loopPc' = "returned")
         /\ (loopOutcome = "error"
               => /\ ~LoopReadOrWrite
                  /\ loopOutcome' = "error"
                  /\ LoopTerminated') ]_vars
  /\ [](loopOutcome = "error"
          => \A k \in 1..Len(hist.tickWrites) :
               hist.tickWrites[k][1] <= fanIdx)

\* C19 witness: on a device with two fans the write for fan 0 failed, fan 1
\* was not written, and the session has since been stopped and has exited
C19_Witness ==
  /\ loopOutcome = "error"
  /\ numFans = 2
  /\ fanIdx = 0
  /\ Len(hist.tickWrites) = 1
  /\ hist.tickWrites[1][1] = 0
  /\ mainPc = "exited"

\* the loop is inside a tick: between taking it and being back at the select
InTick == loopPc \in {"getTemp", "setFan"}

\* C20: when a tick of a session without dry-run ends back at the select
\* after reading a temperature t that the table has an entry for, the fan
\* writes of the tick are exactly DeviceSetFanSpeed(i, speedMap[t]) for
\* i = 0, ..., numFans - 1 in this order; during a tick main makes no NVML
\* call and the loop does not take the cancel value.
C20_TickWritesEveryFanOnce ==
  [][ /\ (/\ InTick
          /\ loopPc' = "select"
          /\ ~dryrun
          /\ temperature' \in DOMAIN speedMap)
           => hist'.tickWrites =
                [i \in 1..numFans |-> <<i - 1, speedMap[temperature']>>]
      /\ InTick => (~MainCall /\ ~LoopRecvCancel) ]_vars

\* C20 witness: the cancel value was sent before the sensor read of a tick
\* and is still in the channel; the tick read 37 degrees and wrote both fans
\* of the device, and the loop is back at the select
C20_Witness ==
  /\ ~dryrun
  /\ numFans = 2
  /\ loopPc = "select"
  /\ cancelCh = 1
  /\ hist.readsAfterCancel >= 1
  /\ temperature = 37
  /\ 37 \in DOMAIN speedMap
  /\ hist.tickWrites = <<<<0, speedMap[37]>>, <<1, speedMap[37]>>>>

====
